---- MODULE Spec2Model ----
(***************************************************************************)
(* Verification model of two units of NTRTsim:                             *)
(*   - cordeAnchor  (constructor, destructor, getRelativePosition,         *)
(*                   getWorldPosition, solve in its default position mode) *)
(*   - tgDataManager (addSensorInfo, addSenseable, setup, teardown,        *)
(*                   destructor)                                           *)
(*                                                                         *)
(* btScalar arithmetic is modelled exactly: a scalar is a fraction n/d in  *)
(* lowest terms, extended with the IEEE special values that 1.0/dt can     *)
(* produce (d = 0: n = 1 is +inf, n = -1 is -inf, n = 0 is NaN).  Rounding *)
(* of finite results is not modelled.                                      *)
(*                                                                         *)
(* Left out: the default constructor cordeAnchor(), which initialises no   *)
(* member, the velocity mode of solve (SOLVE_VELOCITY is not defined),     *)
(* tgDataManager::step and tgDataManager::toString.                        *)
(***************************************************************************)
EXTENDS Integers, Sequences, FiniteSets, TLC

----------------------------------------------------------------------------
(* btScalar *)

Abs(x) == IF x < 0 THEN -x ELSE x

Sgn(x) == IF x > 0 THEN 1 ELSE IF x < 0 THEN -1 ELSE 0

RECURSIVE GCD(_, _)
GCD(a, b) == IF b = 0 THEN a ELSE GCD(b, a % b)

\* the scalar n/d, d >= 0, in lowest terms
Q(n, d) ==
    IF d = 0 THEN [n |-> Sgn(n), d |-> 0]
    ELSE LET g == GCD(Abs(n), d) IN [n |-> n \div g, d |-> d \div g]

Zero == Q(0, 1)
One == Q(1, 1)
NaN == Q(0, 0)

\* a * b; inf * 0 and anything * NaN are NaN
QMul(a, b) == Q(a.n * b.n, a.d * b.d)

\* a + b; inf + (-inf) is NaN
QAdd(a, b) ==
    IF a.d = 0 /\ b.d = 0 THEN (IF a = b THEN a ELSE NaN)
    ELSE Q(a.n * b.d + b.n * a.d, a.d * b.d)

QNeg(a) == [n |-> -a.n, d |-> a.d]

QSub(a, b) == QAdd(a, QNeg(b))

\* 1.0 / a; 1.0 / 0.0 is +inf, 1.0 / inf is 0
QInv(a) ==
    IF a.d = 0 THEN (IF a.n = 0 THEN NaN ELSE Zero)
    ELSE IF a.n = 0 THEN Q(1, 0)
    ELSE Q(Sgn(a.n) * a.d, Abs(a.n))

\* a / b; x / 0.0 is an infinity, 0.0 / 0.0 is NaN
QDiv(a, b) == QMul(a, QInv(b))

\* a > 0.0 (false for NaN)
QGt0(a) == a.n > 0

\* a == 0 (false for NaN)
QIsZero(a) == a.n = 0 /\ a.d # 0

----------------------------------------------------------------------------
(* btVector3, btMatrix3x3, btTransform *)

Vec(x, y, z) == <<Q(x, 1), Q(y, 1), Q(z, 1)>>

ZeroVec == Vec(0, 0, 0)

VAdd(u, v) == [i \in 1..3 |-> QAdd(u[i], v[i])]

VSub(u, v) == [i \in 1..3 |-> QSub(u[i], v[i])]

VNeg(u) == [i \in 1..3 |-> QNeg(u[i])]

\* vector * scalar
VScale(u, s) == [i \in 1..3 |-> QMul(u[i], s)]

Dot(u, v) == QAdd(QAdd(QMul(u[1], v[1]), QMul(u[2], v[2])), QMul(u[3], v[3]))

\* matrix (a triple of rows) * vector
MatVec(m, v) == [i \in 1..3 |-> Dot(m[i], v)]

Transpose(m) == [i \in 1..3 |-> [j \in 1..3 |-> m[j][i]]]

\* btTransform::operator*(const btVector3&): basis * x + origin
TransformApply(t, x) == VAdd(MatVec(t.basis, x), t.origin)

\* a slip: the basis is not transposed
TransformInverseNoTranspose(t) ==
    [basis |-> t.basis, origin |-> MatVec(t.basis, VNeg(t.origin))]

\* btTransform::inverse(): (basis^T, basis^T * -origin)
TransformInverse(t) ==
    LET inv == Transpose(t.basis)
    IN  [basis |-> inv, origin |-> MatVec(inv, VNeg(t.origin))]

----------------------------------------------------------------------------
(* Bounds and inputs *)

\* number of cordeAnchor objects that can exist at once
MaxAnchors == 2

\* solve calls between two steps of the rod integrator
MaxSolves == 1

Slots == 1..MaxAnchors

\* CordePositionElement objects; 0 stands for a NULL pointer
Nodes == {1}

NULL == 0

\* the btRigidBody; 0 stands for a NULL pointer
TheBody == 1

\* the CordeQuaternionElement; 0 stands for a NULL pointer
TheQuat == 1

Identity == <<Vec(1, 0, 0), Vec(0, 1, 0), Vec(0, 0, 1)>>

\* the rotation by 120 degrees about (1,1,1): x -> y -> z -> x
Rot120 == <<Vec(0, 0, 1), Vec(1, 0, 0), Vec(0, 1, 0)>>

\* world transforms the rigid body takes
Transforms ==
    { [basis |-> Identity, origin |-> ZeroVec],
      [basis |-> Rot120, origin |-> Vec(1, 2, -1)] }

\* world anchor points handed to the constructor
WorldPts == { Vec(1, 0, 0), Vec(2, 1, 3) }

\* time steps handed to solve: 0.01, 2, 0 and -1
Dts == { Q(1, 100), Q(2, 1), Q(0, 1), Q(-1, 1) }

\* inverse masses of the rigid body: immovable, 2 kg, 1 kg
InvMasses == { Zero, Q(1, 2), One }

\* masses of a rod node
NodeMasses == { One, Q(2, 1) }

\* entries m_sensorInfos can hold
MaxInfos == 2

\* entries m_senseables can hold
MaxSenseables == 2

\* tgSensor objects created in one run
MaxSensors == 6

\* setup calls without a teardown in between
MaxSetups == 2

\* tgSensorInfo objects handed to addSensorInfo
InfoIds == {1, 2}

\* tgSenseable objects: a model (1) with a rod (2) and a cable (3) as children
SenseableIds == {1, 2, 3}

\* (pos_new, force) pairs the rod integrator leaves in a node
NodeInputs ==
    { <<ZeroVec, ZeroVec>>, <<ZeroVec, Vec(0, 3, 0)>>, <<Vec(1, 1, 0), Vec(2, 0, -1)>> }

----------------------------------------------------------------------------
(* State *)

VARIABLES
    assertsOn,      \* the build keeps assert() (NDEBUG not defined)
    rigidBody,      \* the btRigidBody: [invMass, tr]
    nodes,          \* CordePositionElement: [isAnchor, pos_new, mass, force]
    anchors,        \* cordeAnchor objects, by slot
    solves,         \* solve calls since the rod integrator last ran
    lastOp,         \* the last call: [name, slot, args, p, dt, outcome]
    calls,          \* calls the last operation made on its collaborators
    ret,            \* value the last operation returned
    m_sensorInfos,  \* tgDataManager::m_sensorInfos
    m_senseables,   \* tgDataManager::m_senseables
    m_sensors,      \* tgDataManager::m_sensors
    sensorHeap,     \* every tgSensor created: [info, on, deletes]
    infoDeletes,    \* per tgSensorInfo: times it was deleted
    setups,         \* setup calls since the last teardown
    dmAlive         \* the tgDataManager has not been destroyed

dmVars ==
    <<m_sensorInfos, m_senseables, m_sensors, sensorHeap, infoDeletes,
      setups, dmAlive>>

vars ==
    <<assertsOn, rigidBody, nodes, anchors, solves, lastOp, calls, ret,
      m_sensorInfos, m_senseables, m_sensors, sensorHeap, infoDeletes,
      setups, dmAlive>>

\* storage of a cordeAnchor that does not exist
NoAnchor ==
    [live |-> FALSE, attachedBody |-> NULL, m_attachedElement |-> NULL,
     m_attachedQuaternion |-> NULL, attachedRelativeOriginalPosition |-> ZeroVec]

Op(name, slot, args, p, dt, outcome) ==
    [name |-> name, slot |-> slot, args |-> args, p |-> p, dt |-> dt,
     outcome |-> outcome]

NoArgs == <<NULL, NULL, NULL>>

\* the process was ended by a failed assert ("assert"), by a fault ("segv")
\* or went on after undefined behaviour ("ub"), which is not followed further
Halted == lastOp.outcome \in {"assert", "segv", "ub"}

InitAnchor ==
    /\ assertsOn \in BOOLEAN
    /\ rigidBody \in [invMass : InvMasses, tr : {[basis |-> Identity, origin |-> ZeroVec]}]
    /\ nodes \in [Nodes -> [isAnchor : {FALSE}, pos_new : {ZeroVec},
                            mass : NodeMasses, force : {ZeroVec}]]
    /\ anchors = [s \in Slots |-> NoAnchor]
    /\ solves = 0
    /\ lastOp = Op("none", 0, NoArgs, ZeroVec, Zero, "ok")
    /\ calls = <<>>
    /\ ret = ZeroVec

----------------------------------------------------------------------------
(* cordeAnchor *)

\* btRigidBody::getCenterOfMassPosition
getCenterOfMassPosition == rigidBody.tr.origin

\* attachedBody->getWorldTransform().inverse() * worldPos
restOffset(worldPos) == TransformApply(TransformInverse(rigidBody.tr), worldPos)

getWorldPosition(a) ==
    TransformApply(rigidBody.tr, a.attachedRelativeOriginalPosition)

getRelativePosition(a) == VSub(getWorldPosition(a), getCenterOfMassPosition)

\* cordeAnchor::cordeAnchor(body, element, qElement, worldPos)
Construct(s, b, e, q, p) ==
    /\ ~Halted
    /\ ~anchors[s].live
    /\ \A r \in Slots : r < s => anchors[r].live
    /\ solves' = solves
    /\ calls' = <<>>
    /\ ret' = ZeroVec
    /\ UNCHANGED <<assertsOn, rigidBody, dmVars>>
    /\ \/ \* the initializer list reads the transform through a NULL body:
          \* undefined; the read faults, or it yields garbage and the body of
          \* the constructor runs on (whether assert(body) then fires or not)
          /\ b = NULL
          /\ \/ /\ lastOp' = Op("construct", s, <<b, e, q>>, p, Zero, "segv")
                /\ UNCHANGED <<nodes, anchors>>
             \/ /\ e # NULL
                /\ nodes' = [nodes EXCEPT ![e].isAnchor = TRUE]
                /\ lastOp' = Op("construct", s, <<b, e, q>>, p, Zero, "ub")
                /\ UNCHANGED anchors
       \/ \* isAnchor is written through a NULL element: undefined; the write
          \* faults, or it lands outside every node
          /\ b # NULL
          /\ e = NULL
          /\ lastOp' \in { Op("construct", s, <<b, e, q>>, p, Zero, o) :
                             o \in {"segv", "ub"} }
          /\ UNCHANGED <<nodes, anchors>>
       \/ \* assert(qElement) comes after the write to isAnchor
          /\ b # NULL
          /\ e # NULL
          /\ q = NULL
          /\ assertsOn
          /\ nodes' = [nodes EXCEPT ![e].isAnchor = TRUE]
          /\ lastOp' = Op("construct", s, <<b, e, q>>, p, Zero, "assert")
          /\ UNCHANGED anchors
       \/ /\ b # NULL
          /\ e # NULL
          /\ q # NULL \/ ~assertsOn
          /\ anchors' = [anchors EXCEPT ![s] =
                [live |-> TRUE, attachedBody |-> b, m_attachedElement |-> e,
                 m_attachedQuaternion |-> q,
                 attachedRelativeOriginalPosition |-> restOffset(p)]]
          /\ nodes' = [nodes EXCEPT ![e].isAnchor = TRUE]
          /\ lastOp' = Op("construct", s, <<b, e, q>>, p, Zero, "ok")

\* cordeAnchor::~cordeAnchor
Destroy(s) ==
    /\ ~Halted
    /\ anchors[s].live
    /\ nodes' = [nodes EXCEPT ![anchors[s].m_attachedElement].isAnchor = FALSE]
    /\ anchors' = [anchors EXCEPT ![s] = NoAnchor]
    /\ lastOp' = Op("destroy", s, NoArgs, ZeroVec, Zero, "ok")
    /\ calls' = <<>>
    /\ ret' = ZeroVec
    /\ UNCHANGED <<assertsOn, rigidBody, solves, dmVars>>

\* cordeAnchor::getWorldPosition, called by the owner
GetWorldPosition(s) ==
    /\ ~Halted
    /\ anchors[s].live
    /\ ret' = getWorldPosition(anchors[s])
    /\ lastOp' = Op("getWorldPosition", s, NoArgs, ZeroVec, Zero, "ok")
    /\ calls' = <<>>
    /\ UNCHANGED <<assertsOn, rigidBody, nodes, anchors, solves, dmVars>>

\* cordeAnchor::getRelativePosition, called by the owner
GetRelativePosition(s) ==
    /\ ~Halted
    /\ anchors[s].live
    /\ ret' = getRelativePosition(anchors[s])
    /\ lastOp' = Op("getRelativePosition", s, NoArgs, ZeroVec, Zero, "ok")
    /\ calls' = <<>>
    /\ UNCHANGED <<assertsOn, rigidBody, nodes, anchors, solves, dmVars>>

\* the dynamics world moves the rigid body
MoveBody(t) ==
    /\ ~Halted
    /\ t # rigidBody.tr
    /\ rigidBody' = [rigidBody EXCEPT !.tr = t]
    /\ lastOp' = Op("moveBody", 0, NoArgs, ZeroVec, Zero, "ok")
    /\ calls' = <<>>
    /\ ret' = ZeroVec
    /\ UNCHANGED <<assertsOn, nodes, anchors, solves, dmVars>>

\* the rod integrator predicts a node's position and resets its force
IntegratorStep(n, in) ==
    /\ ~Halted
    /\ nodes' = [nodes EXCEPT ![n].pos_new = in[1], ![n].force = in[2]]
    /\ solves' = 0
    /\ lastOp' = Op("integrate", 0, NoArgs, ZeroVec, Zero, "ok")
    /\ calls' = <<>>
    /\ ret' = ZeroVec
    /\ UNCHANGED <<assertsOn, rigidBody, anchors, dmVars>>

\* CordePositionElement::applyForce: adds to the force accumulator
applyForce(force, f) == VAdd(force, f)

\* const btScalar idt = 1.0 / dt
idt(dt) == QDiv(One, dt)

\* rbPos - softPos
posDiff(a) == VSub(getWorldPosition(a), nodes[a.m_attachedElement].pos_new)

\* getInvMass() > 0.0 ? 1.0 / getInvMass() : 0.0
rMass == IF QGt0(rigidBody.invMass) THEN QDiv(One, rigidBody.invMass) ELSE Zero

sMass(a) == nodes[a.m_attachedElement].mass

massRatio(a) ==
    IF QIsZero(rMass) THEN One
    ELSE QDiv(QMul(rMass, One), QAdd(rMass, sMass(a)))

rSoft(a) == VScale(posDiff(a), massRatio(a))

\* a slip: the rigid side is pushed the same way as the soft side
rRigidSameSign(a) == VScale(posDiff(a), QSub(One, massRatio(a)))

rRigid(a) == VScale(VNeg(posDiff(a)), QSub(One, massRatio(a)))

\* a slip: the velocity mode's single power of idt
fSoftFirstOrder(a, dt) == VScale(rSoft(a), QMul(idt(dt), sMass(a)))

\* pow(idt, 2.0) * sMass * rSoft
fSoft(a, dt) == VScale(rSoft(a), QMul(QMul(idt(dt), idt(dt)), sMass(a)))

\* pow(idt, 1.0) * rMass * rRigid + m_attachedElement->force * dt
fRigid(a, dt, force) ==
    VAdd(VScale(rRigid(a), QMul(idt(dt), rMass)), VScale(force, dt))

Call(fn, v, at) == [fn |-> fn, v |-> v, at |-> at]

\* a slip: the impulse is computed before the force is applied to the node
solveCallsImpulseFirst(a, dt) ==
    LET f == fSoft(a, dt)
    IN  << Call("applyForce", f, ZeroVec),
           Call("activate", ZeroVec, ZeroVec),
           Call("applyImpulse", fRigid(a, dt, nodes[a.m_attachedElement].force),
                getRelativePosition(a)) >>

\* the calls solve makes, in order, on the node and on the rigid body
solveCalls(a, dt) ==
    LET f == fSoft(a, dt)
        force == applyForce(nodes[a.m_attachedElement].force, f)
    IN  << Call("applyForce", f, ZeroVec),
           Call("activate", ZeroVec, ZeroVec),
           Call("applyImpulse", fRigid(a, dt, force), getRelativePosition(a)) >>

\* what solve does to the node, the rigid body and the call record; both
\* asserts hold, since a live anchor has neither pointer NULL; rbLength and
\* softLength are computed and never used
solveEffects(s, dt) ==
    LET a == anchors[s]
        e == a.m_attachedElement
        cs == solveCalls(a, dt)
    IN  /\ ~Halted
        /\ a.live
        /\ solves < MaxSolves
        /\ solves' = solves + 1
        /\ nodes' = [nodes EXCEPT ![e].force = applyForce(@, cs[1].v)]
        /\ calls' = cs
        /\ lastOp' = Op("solve", s, NoArgs, ZeroVec, dt, "ok")
        /\ ret' = ZeroVec
        /\ UNCHANGED <<assertsOn, rigidBody, dmVars>>

\* a slip: solve stores the world position it computed in the offset member
SolveStoringWorldPosition(s, dt) ==
    /\ solveEffects(s, dt)
    /\ anchors' = [anchors EXCEPT ![s].attachedRelativeOriginalPosition =
                      getWorldPosition(anchors[s])]

\* cordeAnchor::solve(dt), position mode (SOLVE_VELOCITY is not defined)
Solve(s, dt) == solveEffects(s, dt) /\ UNCHANGED anchors

\* one attachment between the rigid body and a rod node, stepped by the
\* simulation: every operation of cordeAnchor on a single object
NextAnchor ==
    \/ \E e \in Nodes, p \in WorldPts : Construct(1, TheBody, e, TheQuat, p)
    \/ Destroy(1)
    \/ GetWorldPosition(1)
    \/ GetRelativePosition(1)
    \/ \E t \in Transforms : MoveBody(t)
    \/ \E n \in Nodes, in \in NodeInputs : IntegratorStep(n, in)
    \/ \E dt \in Dts : Solve(1, dt)

\* several attachments created and released on the same nodes
NextLifecycle ==
    \/ \E s \in Slots, b \in {NULL, TheBody}, e \in {NULL} \cup Nodes,
         q \in {NULL, TheQuat}, p \in WorldPts : Construct(s, b, e, q, p)
    \/ \E s \in Slots : Destroy(s)
    \/ \E s \in Slots : GetWorldPosition(s)
    \/ \E t \in Transforms : MoveBody(t)

InitDM ==
    /\ m_sensorInfos = <<>>
    /\ m_senseables = <<>>
    /\ m_sensors = <<>>
    /\ sensorHeap = <<>>
    /\ infoDeletes = [i \in InfoIds |-> 0]
    /\ setups = 0
    /\ dmAlive = TRUE

Init == InitAnchor /\ InitDM

----------------------------------------------------------------------------
(* tgDataManager *)

\* tgSenseable::getSenseableDescendants
getSenseableDescendants(x) == IF x = 1 THEN <<2, 3>> ELSE <<>>

\* tgSensorInfo::isThisMySenseable: info 1 senses rods and cables, info 2 models
isThisMySenseable(info, x) == IF info = 1 THEN x \in {2, 3} ELSE x = 1

\* addSensorsIfAppropriate's loop from index i on: the sensors it creates for
\* pSenseable, one per matching entry of m_sensorInfos, appended to acc
RECURSIVE addSensorsFrom(_, _, _)
addSensorsFrom(i, pSenseable, acc) ==
    IF i > Len(m_sensorInfos) THEN acc
    ELSE addSensorsFrom(i + 1, pSenseable,
            IF isThisMySenseable(m_sensorInfos[i], pSenseable)
            THEN Append(acc, [info |-> m_sensorInfos[i], on |-> pSenseable, deletes |-> 0])
            ELSE acc)

addSensorsIfAppropriate(pSenseable, acc) == addSensorsFrom(1, pSenseable, acc)

\* the loop over a senseable's descendants from index k on
RECURSIVE addForDescendants(_, _, _)
addForDescendants(k, descendants, acc) ==
    IF k > Len(descendants) THEN acc
    ELSE addForDescendants(k + 1, descendants,
            addSensorsIfAppropriate(descendants[k], acc))

\* setup's loop over m_senseables from index j on
RECURSIVE setupFrom(_, _)
setupFrom(j, acc) ==
    IF j > Len(m_senseables) THEN acc
    ELSE setupFrom(j + 1,
            addForDescendants(1, getSenseableDescendants(m_senseables[j]),
                addSensorsIfAppropriate(m_senseables[j], acc)))

\* delete p, for every pointer p of the list
DeleteAll(heap, ptrs) ==
    [id \in DOMAIN heap |->
        [heap[id] EXCEPT !.deletes = @ + Cardinality({i \in DOMAIN ptrs : ptrs[i] = id})]]

DMOp(name) == Op(name, 0, NoArgs, ZeroVec, Zero, "ok")

\* tgDataManager::addSensorInfo; a NULL pointer throws before any change
AddSensorInfo(pSensorInfo) ==
    /\ dmAlive
    /\ pSensorInfo # NULL
    /\ Len(m_sensorInfos) < MaxInfos
    /\ m_sensorInfos' = Append(m_sensorInfos, pSensorInfo)
    /\ lastOp' = DMOp("addSensorInfo")
    /\ UNCHANGED <<m_senseables, m_sensors, sensorHeap, infoDeletes, setups, dmAlive>>
    /\ UNCHANGED <<assertsOn, rigidBody, nodes, anchors, solves, calls, ret>>

\* tgDataManager::addSenseable; a NULL pointer throws before any change
AddSenseable(pSenseable) ==
    /\ dmAlive
    /\ pSenseable # NULL
    /\ Len(m_senseables) < MaxSenseables
    /\ m_senseables' = Append(m_senseables, pSenseable)
    /\ lastOp' = DMOp("addSenseable")
    /\ UNCHANGED <<m_sensorInfos, m_sensors, sensorHeap, infoDeletes, setups, dmAlive>>
    /\ UNCHANGED <<assertsOn, rigidBody, nodes, anchors, solves, calls, ret>>

\* tgDataManager::setup
Setup ==
    LET created == setupFrom(1, <<>>)
    IN  /\ dmAlive
        /\ setups < MaxSetups
        /\ Len(sensorHeap) + Len(created) <= MaxSensors
        /\ sensorHeap' = sensorHeap \o created
        /\ m_sensors' = m_sensors \o [k \in 1..Len(created) |-> Len(sensorHeap) + k]
        /\ setups' = setups + 1
        /\ lastOp' = DMOp("setup")
        /\ UNCHANGED <<m_sensorInfos, m_senseables, infoDeletes, dmAlive>>
        /\ UNCHANGED <<assertsOn, rigidBody, nodes, anchors, solves, calls, ret>>

\* a slip: the sensors are deleted but m_sensors.clear() is left out
TeardownNoClear ==
    /\ dmAlive
    /\ sensorHeap' = DeleteAll(sensorHeap, m_sensors)
    /\ m_sensors' = [i \in DOMAIN m_sensors |-> NULL]
    /\ setups' = 0
    /\ lastOp' = DMOp("teardown")
    /\ UNCHANGED <<m_sensorInfos, m_senseables, infoDeletes, dmAlive>>
    /\ UNCHANGED <<assertsOn, rigidBody, nodes, anchors, solves, calls, ret>>

\* tgDataManager::teardown
Teardown ==
    /\ dmAlive
    /\ sensorHeap' = DeleteAll(sensorHeap, m_sensors)
    /\ m_sensors' = <<>>
    /\ setups' = 0
    /\ lastOp' = DMOp("teardown")
    /\ UNCHANGED <<m_sensorInfos, m_senseables, infoDeletes, dmAlive>>
    /\ UNCHANGED <<assertsOn, rigidBody, nodes, anchors, solves, calls, ret>>

\* tgDataManager::~tgDataManager
Destructor ==
    /\ dmAlive
    /\ sensorHeap' = DeleteAll(sensorHeap, m_sensors)
    /\ m_sensors' = [i \in DOMAIN m_sensors |-> NULL]
    /\ infoDeletes' = [id \in InfoIds |->
            infoDeletes[id] + Cardinality({i \in DOMAIN m_sensorInfos : m_sensorInfos[i] = id})]
    /\ m_sensorInfos' = [i \in DOMAIN m_sensorInfos |-> NULL]
    /\ dmAlive' = FALSE
    /\ lastOp' = DMOp("destructor")
    /\ UNCHANGED <<m_senseables, setups>>
    /\ UNCHANGED <<assertsOn, rigidBody, nodes, anchors, solves, calls, ret>>

NextDM ==
    \/ \E i \in InfoIds : AddSensorInfo(i)
    \/ \E x \in SenseableIds : AddSenseable(x)
    \/ Setup
    \/ Teardown
    \/ Destructor

\* a data manager on its own: no cordeAnchor is created
InitManager ==
    /\ Init
    /\ assertsOn
    /\ rigidBody.invMass = Zero
    /\ \A n \in Nodes : nodes[n].mass = One

SpecDM == InitManager /\ [][NextDM]_vars

\* no assert of cordeAnchor can fail under NextAnchor, so one build stands for both
InitAsserting == Init /\ assertsOn

Spec == InitAsserting /\ [][NextAnchor]_vars

SpecLifecycle == Init /\ [][NextLifecycle]_vars

----------------------------------------------------------------------------
(* Claims about cordeAnchor *)

\* the attachments alive on node n
LiveOn(n) == { s \in Slots : anchors[s].live /\ anchors[s].m_attachedElement = n }

HasNullArg(op) == \E i \in 1..3 : op.args[i] = NULL

\* C1: after solve(dt), dt > 0, on an immovable body (inverse mass 0) the mass
\* ratio is 1 and the impulse handed to applyImpulse is the zero vector.
C1_ImmovableZeroImpulse ==
    (lastOp.name = "solve" /\ QGt0(lastOp.dt) /\ QIsZero(rigidBody.invMass))
        => /\ massRatio(anchors[lastOp.slot]) = One
           /\ calls[3].fn = "applyImpulse"
           /\ calls[3].v = ZeroVec

\* C2: solve(dt) with dt <= 0 fails and calls neither applyForce on the node
\* nor applyImpulse on the rigid body.
C2_NonPositiveDtFails ==
    (lastOp.name = "solve" /\ ~QGt0(lastOp.dt))
        => (lastOp.outcome # "ok" /\ calls = <<>>)

\* C3: while the process runs, a node's isAnchor flag is true exactly when one
\* live attachment references the node (stated of the build that keeps its
\* asserts, where every live attachment was given three valid pointers).
C3_FlagIffOneLive ==
    (assertsOn /\ ~Halted) => \A n \in Nodes : nodes[n].isAnchor <=> (Cardinality(LiveOn(n)) = 1)

\* C4: a constructor call with a NULL body, element or orientation fails and
\* leaves every node, its isAnchor flag included, as it was (stated of the
\* calls whose behaviour the language defines).
C4_NullArgsFailCleanly ==
    [][ (lastOp'.name = "construct" /\ HasNullArg(lastOp')
           /\ lastOp'.outcome \notin {"segv", "ub"})
            => (lastOp'.outcome # "ok" /\ nodes' = nodes) ]_vars

\* C5: solve(dt), dt > 0, hands applyForce, and adds to the node's force,
\* (1/dt)^2 * nodeMass * massRatio * posDiff, with massRatio = rMass / (rMass +
\* nodeMass) for a finite-mass body (1/2 for equal masses) and 1 for an
\* immovable one.
C5_FlexibleForce ==
    [][ (lastOp'.name = "solve" /\ QGt0(lastOp'.dt)) =>
          LET a == anchors[lastOp'.slot]
              n == a.m_attachedElement
              dt == lastOp'.dt
              d == VSub(TransformApply(rigidBody.tr, a.attachedRelativeOriginalPosition),
                        nodes[n].pos_new)
              m == nodes[n].mass
              rm == QDiv(One, rigidBody.invMass)
              mr == IF QIsZero(rigidBody.invMass) THEN One ELSE QDiv(rm, QAdd(rm, m))
              f == VScale(d, QMul(QMul(QMul(QDiv(One, dt), QDiv(One, dt)), m), mr))
          IN  /\ calls'[1] = Call("applyForce", f, ZeroVec)
              /\ nodes'[n].force = VAdd(nodes[n].force, f)
              /\ (~QIsZero(rigidBody.invMass) /\ rm = m) => mr = Q(1, 2) ]_vars

\* C5's case: the spec's example, posDiff = (1,0,0), node mass 2, rigid mass 2,
\* dt = 0.01, force (10000,0,0)
C5_Witness ==
    /\ lastOp.name = "solve"
    /\ lastOp.dt = Q(1, 100)
    /\ rigidBody.invMass = Q(1, 2)
    /\ nodes[1].mass = Q(2, 1)
    /\ posDiff(anchors[lastOp.slot]) = Vec(1, 0, 0)
    /\ calls[1].v = Vec(10000, 0, 0)

\* C6: getWorldPosition() called right after a successful construction with
\* world point p, the body unmoved, returns p.
C6_RoundTrip ==
    [][ ( /\ lastOp.name = "construct"
          /\ lastOp.outcome = "ok"
          /\ lastOp'.name = "getWorldPosition"
          /\ lastOp'.slot = lastOp.slot )
            => ret' = lastOp.p ]_vars

\* C6's case: the query ran on a rotated and translated body, where the stored
\* offset differs from the world point
C6_Witness ==
    /\ lastOp.name = "getWorldPosition"
    /\ rigidBody.tr.basis # Identity
    /\ ret = Vec(2, 1, 3)
    /\ anchors[lastOp.slot].attachedRelativeOriginalPosition # ret

\* C7: solve, getWorldPosition, getRelativePosition, the rod integrator and
\* movements of the body leave the stored offset of every live attachment as
\* it was; getWorldPosition returns the body's current transform applied to
\* it and getRelativePosition that minus the centre of mass.
C7_OffsetFixed ==
    [][ /\ \A s \in Slots :
             ( /\ anchors[s].live
               /\ lastOp'.name \in {"solve", "getWorldPosition", "getRelativePosition",
                                    "moveBody", "integrate"} )
                 => /\ anchors'[s].live
                    /\ anchors'[s].attachedRelativeOriginalPosition
                         = anchors[s].attachedRelativeOriginalPosition
        /\ lastOp'.name = "getWorldPosition"
             => ret' = TransformApply(rigidBody'.tr,
                         anchors[lastOp'.slot].attachedRelativeOriginalPosition)
        /\ lastOp'.name = "getRelativePosition"
             => ret' = VSub(TransformApply(rigidBody'.tr,
                              anchors[lastOp'.slot].attachedRelativeOriginalPosition),
                            rigidBody'.tr.origin) ]_vars

\* C7's case: a query after a solve and a movement of the body
C7_Witness ==
    /\ lastOp.name = "getWorldPosition"
    /\ solves > 0
    /\ rigidBody.tr.basis # Identity
    /\ anchors[lastOp.slot].attachedRelativeOriginalPosition = Vec(2, 1, 3)

\* C8: solve makes exactly applyForce on the node, activate on the body and
\* applyImpulse on the body at getRelativePosition(), in this order; the
\* impulse is (1/dt) * rMass * rRigid + F * dt, rRigid = -posDiff * (1 -
\* massRatio), F the node's force with this call's force already added.
C8_CallOrderAndImpulse ==
    lastOp.name = "solve" =>
        LET a == anchors[lastOp.slot]
            n == a.m_attachedElement
            dt == lastOp.dt
            world == TransformApply(rigidBody.tr, a.attachedRelativeOriginalPosition)
            d == VSub(world, nodes[n].pos_new)
            rm == IF QGt0(rigidBody.invMass) THEN QDiv(One, rigidBody.invMass) ELSE Zero
            mr == IF QIsZero(rm) THEN One ELSE QDiv(rm, QAdd(rm, nodes[n].mass))
            rr == VScale(VNeg(d), QSub(One, mr))
            F == nodes[n].force
        IN  /\ Len(calls) = 3
            /\ calls[1].fn = "applyForce"
            /\ calls[2].fn = "activate"
            /\ calls[3].fn = "applyImpulse"
            /\ calls[3].at = VSub(world, rigidBody.tr.origin)
            /\ calls[3].v = VAdd(VScale(rr, QMul(QDiv(One, dt), rm)), VScale(F, dt))

\* C8's case: a solve with dt > 0 whose force and impulse are both non-zero
C8_Witness ==
    /\ lastOp.name = "solve"
    /\ QGt0(lastOp.dt)
    /\ calls[1].v # ZeroVec
    /\ calls[3].v # ZeroVec
    /\ nodes[1].force # calls[1].v

\* C9: for a finite-mass body and dt > 0 the impulse solve applies is the
\* node's force before the call times dt, whatever posDiff is; it is zero when
\* that force is zero.
C9_ImpulseIsPriorForce ==
    [][ (lastOp'.name = "solve" /\ QGt0(lastOp'.dt) /\ QGt0(rigidBody.invMass)) =>
          LET n == anchors[lastOp'.slot].m_attachedElement
          IN  /\ calls'[3].v = VScale(nodes[n].force, lastOp'.dt)
              /\ nodes[n].force = ZeroVec => calls'[3].v = ZeroVec ]_vars

\* C9's case: a non-zero positional disagreement, no prior force, zero impulse
C9_Witness ==
    /\ lastOp.name = "solve"
    /\ QGt0(lastOp.dt)
    /\ QGt0(rigidBody.invMass)
    /\ calls[1].v # ZeroVec
    /\ calls[3].v = ZeroVec

----------------------------------------------------------------------------
(* Claims about tgDataManager *)

\* positions (j, k, i): entry j of m_senseables (k = 0) or its k-th descendant,
\* matched by entry i of m_sensorInfos
MatchingPairs ==
    { t \in (DOMAIN m_senseables) \X (0..2) \X (DOMAIN m_sensorInfos) :
        LET desc == getSenseableDescendants(m_senseables[t[1]])
        IN  /\ t[2] <= Len(desc)
            /\ isThisMySenseable(m_sensorInfos[t[3]],
                   IF t[2] = 0 THEN m_senseables[t[1]] ELSE desc[t[2]]) }

NumPairs == Cardinality(MatchingPairs)

Held(ptrs) == { ptrs[i] : i \in DOMAIN ptrs }

====
